---------------------------- MODULE Spec2Model ----------------------------
(***************************************************************************)
(* Random nanowire networks (randomnwn/nanowires.py).                      *)
(*                                                                         *)
(* The network NWN is the networkx graph the module functions build and    *)
(* read: NWN.graph (the attribute dictionary), NWN.nodes (wire index ->    *)
(* line, midpoint, electrode) and NWN.edges (unordered wire pair ->        *)
(* resistance).  Every module function is one action; `ret` records the    *)
(* last call, its arguments and how it ended (a value or the exception     *)
(* that left the function).                                                *)
(*                                                                         *)
(* Numbers.  Coordinates are integers; a real number that the code derives *)
(* from them (a midpoint, an intersection point, a density) is an exact    *)
(* fraction <<n, d>> in lowest terms with d > 0.  Conductances are         *)
(* integers in units of the leakage conductance 1e-8 S, and the            *)
(* resistances drawn divide 10^8, so 1/r is exact in that unit.            *)
(***************************************************************************)
EXTENDS Integers, Sequences, FiniteSets

VARIABLES NWN, ret, updates

vars == <<NWN, ret, updates>>

-----------------------------------------------------------------------------
(* Bounds and input sets *)

\* most wires a network may hold (guards create_NWN and add_wires)
MaxWires == 3
\* longest list handed to add_wires
MaxBatch == 2
\* most resistance updates a caller makes
MaxUpdates == 1

\* widths drawn for create_NWN
Widths == {1, 2}

\* densities drawn for create_NWN, as fractions <<n, d>>: the eighths up to
\* 6/8, so that width * width * density is at times half-way between integers
Densities == {<<n, 8>> : n \in 1..6}

\* wire_length values drawn (even, so that length / 2 is an integer)
WireLengths == {2}

\* resistances drawn, in ohms, for create_NWN's default and for an update of
\* one junction; each non-zero one divides 10^8
Resistances == {0, 10}

UpdatedResistances == {0, 5, 10}

\* applied voltages drawn for solve_network
Voltages == {5}

\* what the random generator can return to create_line: a midpoint and an
\* angle, the angle given by its <<cos, sin>> (0 and pi/2)
RngDraws ==
    { [xmid |-> 1, ymid |-> 0, cos |-> 1, sin |-> 0],
      [xmid |-> 1, ymid |-> 0, cos |-> 0, sin |-> 1],
      [xmid |-> 0, ymid |-> 1, cos |-> 0, sin |-> 1] }

\* the line segments a caller hands to add_wires, <<x1, y1, x2, y2>>
CallerLines ==
    { <<1, -1, 1, 1>>, <<-1, 1, 3, 1>> }

NoNetwork == [graph |-> <<>>, nodes |-> <<>>, edges |-> <<>>]

None == "None"

-----------------------------------------------------------------------------
(* Exact fractions *)

Abs(x) == IF x < 0 THEN -x ELSE x

RECURSIVE GCD(_, _)
GCD(a, b) == IF b = 0 THEN a ELSE GCD(b, a % b)

\* the fraction n / d (d # 0) in lowest terms, denominator positive
Rat(n, d) ==
    LET g == GCD(Abs(n), Abs(d))
        s == IF d < 0 THEN -1 ELSE 1
    IN  <<(s * n) \div g, (s * d) \div g>>

\* a faulty variant of PyRound: the fraction is truncated
PyTruncate(n, d) == n \div d

\* Python's round() of the fraction n / d, n >= 0, d > 0: to the nearest
\* integer, a tie going to the even one
PyRound(n, d) ==
    LET q == n \div d
        r == n % d
    IN  IF 2 * r < d THEN q
        ELSE IF 2 * r > d THEN q + 1
        ELSE IF q % 2 = 0 THEN q ELSE q + 1

-----------------------------------------------------------------------------
(* Geometry: shapely's LineString of two points *)

LineString(x1, y1, x2, y2) == <<x1, y1, x2, y2>>

P1(l) == <<l[1], l[2]>>
P2(l) == <<l[3], l[4]>>

\* LineString.centroid of a two-point line: its midpoint
Centroid(l) == <<Rat(l[1] + l[3], 2), Rat(l[2] + l[4], 2)>>

Cross(p, q, r) == (q[1] - p[1]) * (r[2] - p[2]) - (q[2] - p[2]) * (r[1] - p[1])

Orientation(p, q, r) ==
    LET c == Cross(p, q, r) IN IF c > 0 THEN 1 ELSE IF c < 0 THEN -1 ELSE 0

Min(a, b) == IF a < b THEN a ELSE b
Max(a, b) == IF a > b THEN a ELSE b

\* r, collinear with p and q, lies on the closed segment pq
OnSegment(p, q, r) ==
    /\ Min(p[1], q[1]) <= r[1] /\ r[1] <= Max(p[1], q[1])
    /\ Min(p[2], q[2]) <= r[2] /\ r[2] <= Max(p[2], q[2])

\* a.intersects(b): the closed segments share at least one point
Intersects(a, b) ==
    LET o1 == Orientation(P1(a), P2(a), P1(b))
        o2 == Orientation(P1(a), P2(a), P2(b))
        o3 == Orientation(P1(b), P2(b), P1(a))
        o4 == Orientation(P1(b), P2(b), P2(a))
    IN  \/ (o1 # o2 /\ o3 # o4)
        \/ (o1 = 0 /\ OnSegment(P1(a), P2(a), P1(b)))
        \/ (o2 = 0 /\ OnSegment(P1(a), P2(a), P2(b)))
        \/ (o3 = 0 /\ OnSegment(P1(b), P2(b), P1(a)))
        \/ (o4 = 0 /\ OnSegment(P1(b), P2(b), P2(a)))

PointLess(p, q) == p[1] < q[1] \/ (p[1] = q[1] /\ p[2] < q[2])

\* a.intersection(b) of two intersecting segments: the crossing point, or for
\* collinear segments the shared stretch (a point when they only touch)
Intersection(a, b) ==
    LET dax == a[3] - a[1]
        day == a[4] - a[2]
        dbx == b[3] - b[1]
        dby == b[4] - b[2]
        den == dax * dby - day * dbx
    IN  IF den # 0
        THEN LET t == (b[1] - a[1]) * dby - (b[2] - a[2]) * dbx
             IN  [type |-> "Point",
                  coords |-> << <<Rat(a[1] * den + t * dax, den),
                                  Rat(a[2] * den + t * day, den)>> >>]
        ELSE LET shared == {p \in {P1(a), P2(a)} : OnSegment(P1(b), P2(b), p)}
                           \cup {p \in {P1(b), P2(b)} : OnSegment(P1(a), P2(a), p)}
                 lo == CHOOSE p \in shared : \A q \in shared : p = q \/ PointLess(p, q)
                 hi == CHOOSE p \in shared : \A q \in shared : p = q \/ PointLess(q, p)
             IN  IF lo = hi
                 THEN [type |-> "Point",
                       coords |-> << <<Rat(lo[1], 1), Rat(lo[2], 1)>> >>]
                 ELSE [type |-> "LineString",
                       coords |-> << <<Rat(lo[1], 1), Rat(lo[2], 1)>>,
                                     <<Rat(hi[1], 1), Rat(hi[2], 1)>> >>]

\* create_line with length even and the generator returning `draw`
create_line(length, draw) ==
    LET xhalf == (length \div 2) * draw.cos
        yhalf == (length \div 2) * draw.sin
    IN  LineString(draw.xmid - xhalf, draw.ymid - yhalf,
                   draw.xmid + xhalf, draw.ymid + yhalf)

-----------------------------------------------------------------------------
(* Intersection index.  `lines` maps the indices 0..n-1 to lines. *)

\* np.triu_indices(n, k=1): the pairs i < j
TriuIndices(n) == {p \in (0..(n - 1)) \X (0..(n - 1)) : p[1] < p[2]}

find_intersects(lines) ==
    LET n    == Cardinality(DOMAIN lines)
        keys == {p \in TriuIndices(n) : Intersects(lines[p[1]], lines[p[2]])}
    IN  [p \in keys |-> Intersection(lines[p[1]], lines[p[2]])]

\* a faulty variant of LineIntersectKey: the designated line always first
LineIntersectKeyIndFirst(ind, j) == <<ind, j>>

\* the key find_line_intersects gives the junction of `ind` with `j`
LineIntersectKey(ind, j) == IF ind < j THEN <<ind, j>> ELSE <<j, ind>>

\* a faulty variant of find_line_intersects: the loop starts at line 1
find_line_intersects_from_1(ind, lines) ==
    LET n    == Cardinality(DOMAIN lines)
        hits == {j \in 1..(n - 1) : j # ind /\ Intersects(lines[ind], lines[j])}
        keys == {LineIntersectKey(ind, j) : j \in hits}
        other(k) == IF k[1] = ind THEN k[2] ELSE k[1]
    IN  [k \in keys |-> Intersection(lines[ind], lines[other(k)])]

\* a faulty variant of find_line_intersects: every pair of lines is looked at
\* again
find_line_intersects_all_pairs(ind, lines) == find_intersects(lines)

find_line_intersects(ind, lines) ==
    LET n    == Cardinality(DOMAIN lines)
        hits == {j \in 0..(n - 1) : j # ind /\ Intersects(lines[ind], lines[j])}
        keys == {LineIntersectKey(ind, j) : j \in hits}
        other(k) == IF k[1] = ind THEN k[2] ELSE k[1]
    IN  [k \in keys |-> Intersection(lines[ind], lines[other(k)])]

-----------------------------------------------------------------------------
(* The graph: nodes, edges and the attribute dictionary *)

\* Graph.add_node(n, **attrs)
add_node(nodes, n, attrs) ==
    [m \in DOMAIN nodes \cup {n} |-> IF m = n THEN attrs ELSE nodes[m]]

\* the edge a key (u, v) names: networkx edges are unordered
EdgeOf(k) == {k[1], k[2]}

\* Graph.add_edges_from(keys, resistance=r): an edge already there has its
\* resistance overwritten
add_edges_from(edges, keys, r) ==
    LET new == {EdgeOf(k) : k \in keys}
    IN  [e \in DOMAIN edges \cup new |->
            IF e \in new THEN [resistance |-> r] ELSE edges[e]]

\* dict.update
DictUpdate(d, u) ==
    [k \in DOMAIN d \cup DOMAIN u |-> IF k \in DOMAIN u THEN u[k] ELSE d[k]]

\* create_NWN's wire count for a width and a density <<n, d>>
create_wire_num(width, density) ==
    PyRound(width * width * density[1], density[2])

\* create_NWN; `draws` is what the seeded generator returns for wire 0, 1, ...
create_NWN(wire_length, width, density, draws, resistance) ==
    LET size     == width * width
        wire_num == create_wire_num(width, density)
        nodes    == [i \in 0..(wire_num - 1) |->
                        LET line == create_line(wire_length, draws[i])
                        IN  [line |-> line, midpoint |-> Centroid(line),
                             electrode |-> FALSE]]
        intersect_dict == find_intersects([i \in DOMAIN nodes |-> nodes[i].line])
    IN  [graph |-> [wire_length |-> wire_length,
                    width |-> width,
                    size |-> size,
                    wire_density |-> Rat(wire_num, size),
                    wire_num |-> wire_num,
                    electrodes |-> 0,
                    junction_resistance |-> resistance,
                    electrode_list |-> <<>>,
                    loc |-> intersect_dict,
                    junction_density |-> Rat(Cardinality(DOMAIN intersect_dict), size)],
         nodes |-> nodes,
         edges |-> add_edges_from([e \in {} |-> [resistance |-> resistance]],
                                  DOMAIN intersect_dict, resistance)]

\* np.sum(electrodes): the number of True flags
NpSum(electrodes) == Cardinality({i \in DOMAIN electrodes : electrodes[i]})

\* a faulty variant of append_electrode: the index goes to the front
append_electrode_front(electrode_list, ind) == <<ind>> \o electrode_list

\* NWN.graph["electrode_list"].append(ind)
append_electrode(electrode_list, ind) == Append(electrode_list, ind)

\* one pass of add_wires' loop, for i (0-based; the lists are 1-based here)
add_wires_step(N, start_ind, i, lines, electrodes) ==
    LET ind   == start_ind + i
        nodes == add_node(N.nodes, ind,
                          [line |-> lines[i + 1],
                           midpoint |-> Centroid(lines[i + 1]),
                           electrode |-> electrodes[i + 1]])
        elist == IF electrodes[i + 1]
                 THEN append_electrode(N.graph.electrode_list, ind)
                 ELSE N.graph.electrode_list
        intersect_dict ==
            find_line_intersects(ind, [m \in DOMAIN nodes |-> nodes[m].line])
    IN  [graph |-> [N.graph EXCEPT !.electrode_list = elist,
                                   !.loc = DictUpdate(@, intersect_dict)],
         nodes |-> nodes,
         edges |-> add_edges_from(N.edges, DOMAIN intersect_dict,
                                  N.graph.junction_resistance)]

RECURSIVE add_wires_loop(_, _, _, _, _)
add_wires_loop(N, start_ind, i, lines, electrodes) ==
    IF i >= Len(lines) THEN N
    ELSE add_wires_loop(add_wires_step(N, start_ind, i, lines, electrodes),
                        start_ind, i + 1, lines, electrodes)

\* a faulty variant of update_wire_num: the count is assigned, not added
update_wire_num_assign(N, new_wire_num) ==
    [N EXCEPT !.graph.wire_num = new_wire_num]

\* NWN.graph["wire_num"] += new_wire_num
update_wire_num(N, new_wire_num) ==
    [N EXCEPT !.graph.wire_num = @ + new_wire_num]

\* NWN.graph["electrodes"] += np.sum(electrodes)
update_electrodes(N, electrodes) ==
    [N EXCEPT !.graph.electrodes = @ + NpSum(electrodes)]

\* add_wires once the lengths agree: the network it leaves
add_wires_body(N, lines, electrodes) ==
    LET start_ind == N.graph.wire_num
        N1 == update_electrodes(update_wire_num(N, Len(lines)), electrodes)
        N2 == add_wires_loop(N1, start_ind, 0, lines, electrodes)
    IN  [N2 EXCEPT !.graph.wire_density =
            Rat(N2.graph.wire_num - N2.graph.electrodes, N2.graph.size)]

\* a faulty variant of add_wires: the lengths are compared after the counts
\* were updated
add_wires_check_late(N, lines, electrodes) ==
    IF Len(lines) # Len(electrodes)
    THEN [NWN |-> update_electrodes(update_wire_num(N, Len(lines)), electrodes),
          error |-> "ValueError"]
    ELSE [NWN |-> add_wires_body(N, lines, electrodes), error |-> None]

\* add_wires(NWN, lines, electrodes): the network it leaves and the exception
\* it raises, if any
add_wires(N, lines, electrodes) ==
    LET new_wire_num == Len(lines)
    IN  IF new_wire_num # Len(electrodes)
        THEN [NWN |-> N, error |-> "ValueError"]
        ELSE [NWN |-> add_wires_body(N, lines, electrodes), error |-> None]

-----------------------------------------------------------------------------
(* Conductance matrix and solver.  A conductance is an integer number of    *)
(* leakage conductances (1e-8 S): 1.0 is OneSiemens and 1 / r is             *)
(* OneSiemens \div r.                                                        *)

Leak == 1

OneSiemens == 100000000

\* sum(...) of the values of the function f
RECURSIVE Sum(_)
Sum(f) ==
    IF DOMAIN f = {} THEN 0
    ELSE LET x == CHOOSE y \in DOMAIN f : TRUE
         IN  f[x] + Sum([y \in DOMAIN f \ {x} |-> f[y]])

\* NWN.edges(i): the edges at wire i
EdgesAt(N, i) == {e \in DOMAIN N.edges : i \in e}

\* conductance_matrix(NWN, drain_node): the matrix G (an entry never assigned
\* is 0), or the exception a division by a zero resistance raises
conductance_matrix(N, drain_node) ==
    LET wire_num == N.graph.wire_num
        idx      == 0..(wire_num - 1)
        Inv(e)   == OneSiemens \div N.edges[e].resistance
        diag(i)  == IF i = drain_node THEN OneSiemens
                    ELSE Sum([e \in {d \in EdgesAt(N, i) : N.edges[d].resistance # 0}
                                 |-> Inv(e)])
                         + Leak
        divides  == {p \in idx \X idx :
                        /\ p[1] # p[2]
                        /\ p[1] # drain_node
                        /\ {p[1], p[2]} \in DOMAIN N.edges}
    IN  IF \E p \in divides : N.edges[{p[1], p[2]}].resistance = 0
        THEN [error |-> "ZeroDivisionError", value |-> None]
        ELSE [error |-> None,
              value |-> [p \in idx \X idx |->
                            IF p[1] = p[2] THEN diag(p[1])
                            ELSE IF p \in divides THEN 0 - Inv({p[1], p[2]})
                            ELSE 0]]

\* a Python call of conductance_matrix with the positional arguments `args`:
\* the function takes two
call_conductance_matrix(args) ==
    IF Len(args) # 2
    THEN [error |-> "TypeError", value |-> None]
    ELSE conductance_matrix(args[1], args[2])

\* scipy.sparse.linalg.spsolve(A, z): the x with A x = z
spsolve(A, z, n) ==
    CHOOSE x \in [0..n -> Int] :
        \A i \in 0..n :
            Sum([j \in 0..n |-> A[<<i, j>>] * x[j]]) = z[i]

\* solve_network(NWN, source_node, drain_node, voltage)
solve_network(N, source_node, drain_node, voltage) ==
    LET wire_num == N.graph.wire_num
        G == call_conductance_matrix(<<N, source_node, drain_node>>)
    IN  IF G.error # None THEN [error |-> G.error, value |-> None]
        ELSE IF source_node \notin (0 - wire_num)..(wire_num - 1)
        THEN [error |-> "IndexError", value |-> None]
        ELSE LET src == IF source_node < 0 THEN source_node + wire_num
                        ELSE source_node
                 B(i) == IF i = src THEN -1 ELSE 0
                 A == [p \in (0..wire_num) \X (0..wire_num) |->
                          IF p[1] < wire_num /\ p[2] < wire_num THEN G.value[p]
                          ELSE IF p[1] < wire_num THEN B(p[1])
                          ELSE IF p[2] < wire_num THEN 0 - B(p[2])
                          ELSE 0]
                 z == [i \in 0..wire_num |-> IF i = wire_num THEN voltage ELSE 0]
             IN  [error |-> None, value |-> spsolve(A, z, wire_num)]

\* a caller's update of one junction's resistance (the dynamics step)
set_resistance(N, e, r) == [N EXCEPT !.edges[e].resistance = r]

-----------------------------------------------------------------------------
(* The state machine *)

NoCall == [op |-> None, args |-> <<>>, error |-> None, value |-> None]

Init ==
    /\ NWN = NoNetwork
    /\ ret = NoCall
    /\ updates = 0

\* lists of length 0..MaxBatch
ListsOf(S) == UNION {[1..n -> S] : n \in 0..MaxBatch}

CreateNWN ==
    /\ NWN = NoNetwork
    /\ \E wl \in WireLengths, w \in Widths, d \in Densities, r \in Resistances :
          LET n == create_wire_num(w, d)
          IN  /\ n <= MaxWires
              /\ \E draws \in [0..(n - 1) -> RngDraws] :
                    /\ NWN' = create_NWN(wl, w, d, draws, r)
                    /\ ret' = [op |-> "create_NWN",
                               args |-> [width |-> w, density |-> d,
                                         resistance |-> r],
                               error |-> None, value |-> None]
    /\ UNCHANGED updates

\* what `ret` keeps of an add_wires call: the two lengths, and the lists
\* themselves when the call went past the comparison of the lengths (a call
\* that raised read nothing else)
AddWiresArgs(lines, electrodes, error) ==
    [new_wire_num |-> Len(lines),
     len_electrodes |-> Len(electrodes),
     lines |-> IF error = None THEN lines ELSE <<>>,
     electrodes |-> IF error = None THEN electrodes ELSE <<>>]

AddWires ==
    /\ NWN # NoNetwork
    /\ \E lines \in ListsOf(CallerLines), electrodes \in ListsOf(BOOLEAN) :
          /\ NWN.graph.wire_num + Len(lines) <= MaxWires
          /\ LET out == add_wires(NWN, lines, electrodes)
             IN
              /\ NWN' = out.NWN
              /\ ret' = [op |-> "add_wires",
                         args |-> AddWiresArgs(lines, electrodes, out.error),
                         error |-> out.error, value |-> None]
    /\ UNCHANGED updates

SetResistance ==
    /\ NWN # NoNetwork
    /\ updates < MaxUpdates
    /\ \E e \in DOMAIN NWN.edges, r \in UpdatedResistances :
          /\ r # NWN.edges[e].resistance
          /\ NWN' = set_resistance(NWN, e, r)
          /\ ret' = [op |-> "set_resistance", args |-> [edge |-> e, resistance |-> r],
                     error |-> None, value |-> None]
    /\ updates' = updates + 1

\* wire indices a caller passes: the valid ones and one past the last
CallerIndices == 0..NWN.graph.wire_num

ConductanceMatrix ==
    /\ NWN # NoNetwork
    /\ \E drain_node \in CallerIndices :
          LET out == conductance_matrix(NWN, drain_node)
          IN  ret' = [op |-> "conductance_matrix",
                      args |-> [drain_node |-> drain_node],
                      error |-> out.error, value |-> out.value]
    /\ UNCHANGED <<NWN, updates>>

SolveNetwork ==
    /\ NWN # NoNetwork
    /\ \E source_node \in CallerIndices, drain_node \in CallerIndices,
          voltage \in Voltages :
          LET out == solve_network(NWN, source_node, drain_node, voltage)
          IN  ret' = [op |-> "solve_network",
                      args |-> [source_node |-> source_node,
                                drain_node |-> drain_node, voltage |-> voltage],
                      error |-> out.error, value |-> out.value]
    /\ UNCHANGED <<NWN, updates>>

\* building a network: create_NWN, then any number of add_wires calls
Next ==
    \/ CreateNWN
    \/ AddWires

Spec == Init /\ [][Next]_vars

\* solving a network: create_NWN, resistance updates, and the two read-only
\* calls
NextSolve ==
    \/ CreateNWN
    \/ SetResistance
    \/ ConductanceMatrix
    \/ SolveNetwork

SolveSpec == Init /\ [][NextSolve]_vars

\* the networks create_NWN returns for width 2 and resistance 10, each with
\* the record of the call that made it
CreatedNetworks ==
    UNION { LET n == create_wire_num(2, d)
            IN  IF n > MaxWires THEN {}
                ELSE { [NWN |-> create_NWN(wl, 2, d, draws, 10),
                        ret |-> [op |-> "create_NWN",
                                 args |-> [width |-> 2, density |-> d,
                                           resistance |-> 10],
                                 error |-> None, value |-> None]] :
                       wl \in WireLengths, draws \in [0..(n - 1) -> RngDraws] }
            : d \in Densities }

\* a network just created, whose junction resistances a caller then updates
\* between add_wires calls
InitUpdate ==
    /\ \E c \in CreatedNetworks : NWN = c.NWN /\ ret = c.ret
    /\ updates = 0

\* add_wires called with as many flags as lines (a call with lists of
\* different lengths raises before it writes, and is drawn by AddWires)
AddWiresEqualLengths ==
    /\ NWN # NoNetwork
    /\ \E lines \in ListsOf(CallerLines) :
          \E electrodes \in [1..Len(lines) -> BOOLEAN] :
             /\ NWN.graph.wire_num + Len(lines) <= MaxWires
             /\ LET out == add_wires(NWN, lines, electrodes)
                IN  /\ NWN' = out.NWN
                    /\ ret' = [op |-> "add_wires",
                               args |-> AddWiresArgs(lines, electrodes, out.error),
                               error |-> out.error, value |-> None]
    /\ UNCHANGED updates

NextUpdate ==
    \/ SetResistance
    \/ AddWiresEqualLengths

UpdateSpec == InitUpdate /\ [][NextUpdate]_vars

-----------------------------------------------------------------------------
(* Properties *)

Created == NWN # NoNetwork

\* width squared, the area the densities are taken over
Area == NWN.graph.width * NWN.graph.width

\* the wires the last add_wires call added
AddedWires ==
    (NWN.graph.wire_num - ret.args.new_wire_num)..(NWN.graph.wire_num - 1)

AddWiresDone == ret.op = "add_wires" /\ ret.error = None

\* C1: an add_wires call whose two lists differ in length raises ValueError
\* and leaves wire_num, the nodes, the junctions, the electrode count,
\* electrode_list, the intersection-point map and wire_density as they were.
AddWiresMismatchChangesNothing ==
    [][(ret'.op = "add_wires"
        /\ ret'.args.new_wire_num # ret'.args.len_electrodes)
       => /\ ret'.error = "ValueError"
          /\ NWN'.graph.wire_num = NWN.graph.wire_num
          /\ NWN'.nodes = NWN.nodes
          /\ NWN'.edges = NWN.edges
          /\ NWN'.graph.electrodes = NWN.graph.electrodes
          /\ NWN'.graph.electrode_list = NWN.graph.electrode_list
          /\ NWN'.graph.loc = NWN.graph.loc
          /\ NWN'.graph.wire_density = NWN.graph.wire_density]_vars

\* a call with 2 lines and 1 flag on a network that holds wires was refused
AddWiresMismatchSeen ==
    /\ ret.op = "add_wires"
    /\ ret.error = "ValueError"
    /\ ret.args.new_wire_num = 2
    /\ ret.args.len_electrodes = 1
    /\ NWN.graph.wire_num > 0

\* C2: wire_num is the number of nodes and the node indices are
\* 0..wire_num-1; a completed add_wires call of k lines gives them the
\* indices old wire_num .. old wire_num + k - 1 in input order, each with its
\* flag, and leaves every earlier wire at its index, unchanged.
WireIndicesContinue ==
    [][Created'
       => /\ NWN'.graph.wire_num = Cardinality(DOMAIN NWN'.nodes)
          /\ DOMAIN NWN'.nodes = 0..(NWN'.graph.wire_num - 1)
          /\ (ret'.op = "add_wires" /\ ret'.error = None)
             => LET old == NWN.graph.wire_num
                    k   == ret'.args.new_wire_num
                IN  /\ NWN'.graph.wire_num = old + k
                    /\ \A i \in 0..(k - 1) :
                          /\ NWN'.nodes[old + i].line = ret'.args.lines[i + 1]
                          /\ NWN'.nodes[old + i].electrode
                                = ret'.args.electrodes[i + 1]
                    /\ \A j \in DOMAIN NWN.nodes : NWN'.nodes[j] = NWN.nodes[j]]_vars

\* a batch of two wires was added to a network of one wire
BatchOfTwoAdded ==
    /\ AddWiresDone
    /\ ret.args.new_wire_num = 2
    /\ NWN.graph.wire_num = 3

\* C3: electrode_list is the ascending, duplicate-free sequence of the indices
\* of the wires whose electrode flag is true.
ElectrodeListSorted ==
    Created
    => LET el == NWN.graph.electrode_list
       IN  /\ \A a, b \in 1..Len(el) : a < b => el[a] < el[b]
           /\ {el[a] : a \in 1..Len(el)}
                = {i \in DOMAIN NWN.nodes : NWN.nodes[i].electrode}

\* two electrodes with a plain wire between them
ElectrodesAroundWire ==
    /\ Created
    /\ NWN.graph.wire_num = 3
    /\ NWN.graph.electrode_list = <<0, 2>>

\* the junctions with an end among the wires the last add_wires call added
AddedJunctions == {e \in DOMAIN NWN.edges : e \cap AddedWires # {}}

\* C4: after create_NWN, and after every add_wires call that added a junction,
\* junction_density is the number of junctions over width squared.
JunctionDensityRecomputed ==
    (Created /\ (ret.op = "create_NWN"
                 \/ (AddWiresDone /\ AddedJunctions # {})))
    => NWN.graph.junction_density[1] * Area
         = Cardinality(DOMAIN NWN.edges) * NWN.graph.junction_density[2]

\* C5: two different wires have a junction exactly when their segments
\* intersect, and every junction (an unordered pair of wires) carries the
\* network's default junction resistance.
JunctionsAreIntersections ==
    Created
    => /\ \A i, j \in DOMAIN NWN.nodes :
             i # j => (({i, j} \in DOMAIN NWN.edges)
                       <=> Intersects(NWN.nodes[i].line, NWN.nodes[j].line))
       /\ \A e \in DOMAIN NWN.edges :
             /\ e \subseteq DOMAIN NWN.nodes
             /\ Cardinality(e) = 2
             /\ NWN.edges[e].resistance = NWN.graph.junction_resistance

\* a batch of two: the first new wire meets the old one, the second meets the
\* first and misses the old one
BatchMeetsOldAndNew ==
    /\ BatchOfTwoAdded
    /\ DOMAIN NWN.edges = {{0, 1}, {1, 2}}

\* C6: every key of the intersection-point map is a pair (i, j) of wires with
\* i < j, no two keys name the same pair of wires, and the keys name exactly
\* the junctions of the graph.
JunctionKeysCanonical ==
    Created
    => /\ \A k \in DOMAIN NWN.graph.loc :
             /\ k[1] \in DOMAIN NWN.nodes
             /\ k[2] \in DOMAIN NWN.nodes
             /\ k[1] < k[2]
       /\ \A k1, k2 \in DOMAIN NWN.graph.loc : EdgeOf(k1) = EdgeOf(k2) => k1 = k2
       /\ {EdgeOf(k) : k \in DOMAIN NWN.graph.loc} = DOMAIN NWN.edges

\* add_wires recorded a junction of a new wire with an older one, beside a
\* junction create_NWN found
KeysFromBothSources ==
    /\ AddWiresDone
    /\ \E k \in DOMAIN NWN.graph.loc : k[2] \in AddedWires /\ k[1] \notin AddedWires
    /\ \E k \in DOMAIN NWN.graph.loc : k[2] \notin AddedWires

\* the wire indices of the network
ValidIndex(i) == i \in 0..(NWN.graph.wire_num - 1)

\* C7: solve_network with valid indices source # drain returns wire_num + 1
\* values, the source's being the applied voltage and the drain's 0.
SolveReturnsPinnedVoltages ==
    (/\ ret.op = "solve_network"
     /\ ValidIndex(ret.args.source_node)
     /\ ValidIndex(ret.args.drain_node)
     /\ ret.args.source_node # ret.args.drain_node)
    => /\ ret.error = None
       /\ DOMAIN ret.value = 0..NWN.graph.wire_num
       /\ ret.value[ret.args.source_node] = ret.args.voltage
       /\ ret.value[ret.args.drain_node] = 0

\* the entry the matrix is to have at row i, column j, for the drain d
EntryAsSpecified(g, i, j, d) ==
    IF i = d THEN g = (IF j = d THEN OneSiemens ELSE 0)
    ELSE IF i = j
    THEN g = Leak + Sum([e \in {x \in DOMAIN NWN.edges :
                                   i \in x /\ NWN.edges[x].resistance # 0}
                            |-> OneSiemens \div NWN.edges[e].resistance])
    ELSE IF {i, j} \in DOMAIN NWN.edges
    THEN g * NWN.edges[{i, j}].resistance = 0 - OneSiemens
    ELSE g = 0

\* C8: with every junction resistance >= 0, zero included, conductance_matrix
\* returns the wire_num x wire_num matrix with the drain row 1 on the diagonal
\* and 0 elsewhere, the other diagonal entries 1e-8 plus the sum of 1/r over
\* the wire's junctions with r # 0, and -1/r where a junction is.
ConductanceMatrixEntries ==
    (ret.op = "conductance_matrix" /\ ValidIndex(ret.args.drain_node))
    => /\ ret.error = None
       /\ DOMAIN ret.value
            = (0..(NWN.graph.wire_num - 1)) \X (0..(NWN.graph.wire_num - 1))
       /\ \A p \in DOMAIN ret.value :
             EntryAsSpecified(ret.value[p], p[1], p[2], ret.args.drain_node)

\* the same for the networks that hold no zero resistance at a junction
ConductanceMatrixEntriesNoZero ==
    (/\ ret.op = "conductance_matrix"
     /\ ValidIndex(ret.args.drain_node)
     /\ \A e \in DOMAIN NWN.edges : NWN.edges[e].resistance > 0)
    => /\ ret.error = None
       /\ DOMAIN ret.value
            = (0..(NWN.graph.wire_num - 1)) \X (0..(NWN.graph.wire_num - 1))
       /\ \A p \in DOMAIN ret.value :
             EntryAsSpecified(ret.value[p], p[1], p[2], ret.args.drain_node)

\* C9: solve_network with source = drain, or with a source or a drain that is
\* no wire of the network, fails with a validation error (ValueError, as
\* add_wires raises).
SolveRejectsBadIndices ==
    (/\ ret.op = "solve_network"
     /\ \/ ret.args.source_node = ret.args.drain_node
        \/ ~ValidIndex(ret.args.source_node)
        \/ ~ValidIndex(ret.args.drain_node))
    => ret.error = "ValueError"

\* C10: create_NWN's wire_num is an integer nearest to width^2 * density and
\* its wire_density is wire_num / width^2; at all times wire_density is
\* (wire_num - electrodes) / width^2, electrodes being the number of wires
\* flagged as electrodes.
WireDensityFormula ==
    Created
    => /\ (ret.op = "create_NWN")
          => LET w == ret.args.width
                 d == ret.args.density
             IN  /\ NWN.graph.width = w
                 /\ 2 * Abs(NWN.graph.wire_num * d[2] - w * w * d[1]) <= d[2]
                 /\ NWN.graph.wire_density[1] * (w * w)
                      = NWN.graph.wire_num * NWN.graph.wire_density[2]
       /\ NWN.graph.wire_density[1] * Area
            = (NWN.graph.wire_num - NWN.graph.electrodes) * NWN.graph.wire_density[2]
       /\ NWN.graph.electrodes
            = Cardinality({i \in DOMAIN NWN.nodes : NWN.nodes[i].electrode})

\* an electrode and a plain wire were added to a network of width 2
DensityAfterElectrode ==
    /\ AddWiresDone
    /\ NWN.graph.width = 2
    /\ NWN.graph.electrodes = 1
    /\ NWN.graph.wire_num = 3

\* C11: add_wires only adds.  Every wire that was there keeps its line, its
\* midpoint and its electrode flag; every junction that was there keeps its
\* resistance (a resistance a caller had changed from the default too) and
\* its recorded intersection point; and every junction the call writes has an
\* end among the wires the call adds.
AddWiresOnlyAdds ==
    [][(ret'.op = "add_wires")
       => /\ \A i \in DOMAIN NWN.nodes :
                /\ i \in DOMAIN NWN'.nodes
                /\ NWN'.nodes[i].line = NWN.nodes[i].line
                /\ NWN'.nodes[i].midpoint = NWN.nodes[i].midpoint
                /\ NWN'.nodes[i].electrode = NWN.nodes[i].electrode
          /\ \A e \in DOMAIN NWN.edges :
                /\ e \in DOMAIN NWN'.edges
                /\ NWN'.edges[e].resistance = NWN.edges[e].resistance
          /\ \A k \in DOMAIN NWN.graph.loc :
                /\ k \in DOMAIN NWN'.graph.loc
                /\ NWN'.graph.loc[k] = NWN.graph.loc[k]
          /\ \A e \in DOMAIN NWN'.edges \ DOMAIN NWN.edges :
                e \cap (DOMAIN NWN'.nodes \ DOMAIN NWN.nodes) # {}
          /\ \A k \in DOMAIN NWN'.graph.loc \ DOMAIN NWN.graph.loc :
                EdgeOf(k) \cap (DOMAIN NWN'.nodes \ DOMAIN NWN.nodes) # {}]_vars

\* add_wires added a junction to a network that held a junction whose
\* resistance a caller had changed from the default
AddedBesideUpdatedJunction ==
    /\ AddWiresDone
    /\ AddedJunctions # {}
    /\ \E e \in DOMAIN NWN.edges :
          /\ e \cap AddedWires = {}
          /\ NWN.edges[e].resistance # NWN.graph.junction_resistance

=============================================================================
